---- MODULE Spec2Model ----
(***************************************************************************)
(* Kiri: the document-to-artifact generation pipeline of src/Kiri.py.      *)
(*                                                                         *)
(* SummarizationWorker (a QThread) runs one request: either one inference  *)
(* call over the whole text (process_full_text) or one asyncio task per    *)
(* chunk under asyncio.Semaphore(2) (process_chunks).  PDFManagerApp       *)
(* starts workers and handles their finished_signal in the GUI thread.     *)
(*                                                                         *)
(* A text is a sequence of string tokens; str.join and the f-strings of    *)
(* the source are sequence concatenations of their pieces.                 *)
(***************************************************************************)
EXTENDS Integers, Sequences, FiniteSets, TLC

VARIABLES
    wpc,            \* position of the worker thread: none, created, full, gather, finished
    text_data,      \* SummarizationWorker.text_data: [kind, text, chunks]
    is_chunked,     \* SummarizationWorker.is_chunked
    prompt_type,    \* SummarizationWorker.prompt_type
    custom_prompt,  \* SummarizationWorker.custom_prompt
    answer_length,  \* SummarizationWorker.answer_length
    connected,      \* finished_signal is connected to summarization_finished
    content_connected, \* finished_signal is connected to content_generation_finished
    qa_connected,   \* finished_signal is connected to qa_finished
    result,         \* SummarizationWorker.result
    chunks,         \* the list process_chunks was called with
    task,           \* per chunk task of process_chunks: its position
    outcome,        \* per unit: how its inference call ended and the text it left
    sem,            \* the asyncio.Semaphore of process_chunks: [value, waiters]
    summaries,      \* the list the chunk tasks append to
    events,         \* signals emitted by the worker, in emission order
    calls,          \* inference calls received by the client, in issue order
    pending,        \* finished_signal emissions queued for summarization_finished
    content_pending, \* finished_signal emissions queued for content_generation_finished
    qa_pending,     \* finished_signal emissions queued for qa_finished
    process_button, \* process_button.isEnabled()
    export_button,  \* export_button.isEnabled()
    final_summary,  \* PDFManagerApp.final_summary
    msgbox,         \* the message boxes shown by the finished handler
    notes,          \* PDFManagerApp.notes, in insertion order
    generate_content_button, \* generate_content_button.isEnabled()
    export_content_button,   \* export_content_button.isEnabled()
    generated_content,       \* PDFManagerApp.generated_content
    pdf_text,       \* the text extract_text_from_pdf finds in the PDF at file_path
    content_pdf_text, \* the text it finds in the PDF at content_file_path
    requests,       \* requests made so far: workers constructed, requests rejected
    file_path,      \* PDFManagerApp.file_path: the PDF selected on the processor tab
    current_pdf_filename, \* PDFManagerApp.current_pdf_filename
    current_pdf_topic,    \* PDFManagerApp.current_pdf_topic
    orphans,        \* texts of the workers self.worker no longer refers to, still running
    ask_question_button,  \* ask_question_button.isEnabled()
    answer_area,    \* the lines appended to answer_area
    seg             \* one call of split_text_into_chunks: [pc, text, max_chunk_size, chunks]

vars == <<wpc, text_data, is_chunked, prompt_type, custom_prompt, answer_length,
          connected, content_connected, result, chunks, task, outcome, sem, summaries,
          events, calls, pending, content_pending, qa_pending, process_button, export_button,
          final_summary, msgbox, notes, generate_content_button,
          export_content_button, generated_content, pdf_text, content_pdf_text,
          requests, seg, qa_connected, file_path, current_pdf_filename,
          current_pdf_topic, orphans, ask_question_button, answer_area>>

\* what the constructor sets and run() only reads
configVars == <<text_data, is_chunked, prompt_type, custom_prompt, answer_length,
                connected, content_connected, qa_connected>>

workerVars == <<wpc, configVars, result, chunks, task, outcome, sem, summaries,
                events, calls, requests>>

\* the selection of the processor tab and what process_pdf derives from it
docVars == <<file_path, current_pdf_filename, current_pdf_topic, orphans>>

\* the widgets of the professor tab
qaVars == <<ask_question_button, answer_area>>

appVars == <<process_button, export_button, final_summary, msgbox, notes,
             generate_content_button, export_content_button, generated_content,
             pdf_text, content_pdf_text, docVars, qaVars>>

----------------------------------------------------------------------------
(* Bounds of the model *)

MaxUnits == 3       \* longest chunk list given to a worker
MaxRequests == 2    \* requests made in one behaviour
MaxTextLen == 6     \* longest text given to split_text_into_chunks
MaxChunkSize == 4   \* largest max_chunk_size given to split_text_into_chunks
MaxSentences == 2   \* sentences of a text made of sentences
MaxWords == 2       \* words of such a sentence
MaxPackSize == 6    \* largest max_chunk_size given with such a text

----------------------------------------------------------------------------
(* Inputs *)

PromptTypes == {"summary", "brief", "qna", "questions", "professor"}

\* prompt_type values a worker is constructed with: the five keys of
\* self.prompts and one that is not a key
PromptTypeInputs == {"summary", "qna", "unknown"}

\* every prompt_type: the five keys and one that is not a key
AllPromptTypeInputs == PromptTypes \cup {"unknown"}

\* custom_prompt and answer_length values a worker is constructed with:
\* the default "" and a text
CustomPromptInputs == {<<>>, <<"Explain like a tutor.">>}
AnswerLengthInputs == {<<>>, <<"Brief answer (1-2 sentences)">>}

\* the text of the k-th chunk of a list
ChunkText(k) == <<"chunk" \o ToString(k)>>

\* the whole text of a PDF, character by character: "aa a. a"
FullText == <<"a", "a", " ", "a", ".", " ", "a">>

\* text_data as the constructor receives it: a str, a list of k chunks, or
\* a value that is neither
TextDataInputs ==
    {[kind |-> "str", text |-> FullText, chunks |-> <<>>]}
    \cup {[kind |-> "list", text |-> <<>>, chunks |-> [k \in 1..n |-> ChunkText(k)]]
            : n \in 0..MaxUnits}
    \cup {[kind |-> "other", text |-> <<>>, chunks |-> <<>>]}

\* text_data of the three kinds, the list long enough for a task to wait
PromptedTextDataInputs ==
    {[kind |-> "str", text |-> FullText, chunks |-> <<>>],
     [kind |-> "list", text |-> <<>>,
      chunks |-> <<ChunkText(1), ChunkText(2), ChunkText(3)>>],
     [kind |-> "other", text |-> <<>>, chunks |-> <<>>]}

\* what a selected PDF can hold: text, nothing, white space only
PdfTexts == {FullText, <<>>, <<" ", "\n">>}

\* the entries of content_type_combo
ContentTypeChoices == {"Summary", "Brief Overview", "Q&A", "Practice Questions"}

\* question_count_spin.value() and question_type_combo.currentText()
QuestionCountInputs == {"5", "10"}
QuestionTypeInputs == {"Mixed", "Multiple Choice"}

\* the message of the exception an inference call raises
ErrorTexts == {"timeout"}

----------------------------------------------------------------------------
(* Pure helpers *)

RECURSIVE join(_, _)
\* sep.join(parts)
join(sep, parts) ==
    IF parts = <<>> THEN <<>>
    ELSE IF Len(parts) = 1 THEN parts[1]
    ELSE parts[1] \o <<sep>> \o join(sep, Tail(parts))

\* response['message']['content'] of a successful call on content
Response(content) == <<"OK:">> \o content

\* f"[ERROR] Failed to process text: {str(e)}"
full_error_msg(e) == <<"[ERROR]", " Failed to process text: ", e>>

\* f"[ERROR] Processing chunk {index+1}: {str(e)}" (index1 = index + 1)
chunk_error_msg(index1, e) ==
    <<"[ERROR]", " Processing chunk ", ToString(index1), ": ", e>>

\* f"[FATAL ERROR] {str(e)}"
fatal_error_msg(e) == <<"[FATAL ERROR]", " ", e>>

\* int((index + 1) / len(chunks) * 100); the float expression equals the
\* integer quotient for every len(chunks) < 50
progress_value(index1, n) == (index1 * 100) \div n

\* a combination that joins every type with the blank line
separator_blank(ptype) == "\n\n"

\* the separator process_chunks joins with
separator(ptype) ==
    IF ptype = "summary" THEN "\n\n--- SECTION BREAK ---\n\n" ELSE "\n\n"

\* the combination step of process_chunks
combine(ptype, parts) == join(separator(ptype), parts)

\* options that sample low for "summary" only
temperature_summary_only(ptype) == IF ptype = "summary" THEN 4 ELSE 7

\* "temperature" option of a call, in tenths: 0.4 or 0.7
temperature(ptype) == IF ptype \in {"summary", "brief"} THEN 4 ELSE 7

OutputEvent(msg) == [sig |-> "output", msg |-> msg]
ProgressEvent(pct) == [sig |-> "progress", pct |-> pct]
FinishedEvent(text) == [sig |-> "finished", msg |-> text]

----------------------------------------------------------------------------
(* asyncio.Semaphore as process_chunks uses it *)

\* asyncio.Semaphore(2)
SemaphoreValue == 2

NewSemaphore == [value |-> SemaphoreValue, waiters |-> <<>>]

\* locked() of a semaphore that admits every caller
locked_never(s) == FALSE

\* Semaphore.locked()
locked(s) == s.value = 0 \/ s.waiters # <<>>

\* Semaphore._wake_up_next(): the first waiter whose future is not done
\* receives the slot
wake_up_next(s) ==
    LET open == {k \in 1..Len(s.waiters) : ~s.waiters[k].done} IN
    IF open = {} THEN s
    ELSE LET k == CHOOSE k \in open : \A j \in open : k <= j IN
         [value |-> s.value - 1,
          waiters |-> [s.waiters EXCEPT ![k].done = TRUE]]

\* Semaphore.release()
release(s) == wake_up_next([s EXCEPT !.value = @ + 1])

\* an exit that keeps the slot when the body raised
aexit_leak(s, raised) == IF raised THEN s ELSE release(s)

\* leaving "async with semaphore": __aexit__ releases whether the body
\* returned or raised
aexit(s, raised) == release(s)

\* Semaphore.acquire() without suspension
acquire_now(s) == [s EXCEPT !.value = @ - 1]

\* Semaphore.acquire() suspending: the future joins the waiters
acquire_wait(s, i) == [s EXCEPT !.waiters = Append(@, [task |-> i, done |-> FALSE])]

\* Semaphore.acquire() resumed: the future leaves the waiters
acquire_resume(s, i) ==
    LET keep == SelectSeq(s.waiters, LAMBDA w : w.task # i)
        s1 == [s EXCEPT !.waiters = keep]
    IN IF s1.value > 0 THEN wake_up_next(s1) ELSE s1

Woken(s, i) == \E k \in 1..Len(s.waiters) : s.waiters[k].task = i /\ s.waiters[k].done

----------------------------------------------------------------------------
(* PDFManagerApp.split_text_into_chunks.  A str is the sequence of its      *)
(* characters, len() is Len.                                                *)

\* the characters str.strip() removes
Whitespace == {" ", "\n", "\r", "\t"}

RECURSIVE lstrip(_)
lstrip(t) == IF t # <<>> /\ Head(t) \in Whitespace THEN lstrip(Tail(t)) ELSE t

RECURSIVE rstrip(_)
rstrip(t) ==
    IF t # <<>> /\ t[Len(t)] \in Whitespace THEN rstrip(SubSeq(t, 1, Len(t) - 1)) ELSE t

\* str.strip()
strip(t) == rstrip(lstrip(t))

\* text.replace('\n', ' ').replace('\r', ' ')
replace_newlines(t) ==
    [k \in 1..Len(t) |-> IF t[k] \in {"\n", "\r"} THEN " " ELSE t[k]]

RECURSIVE split_from(_, _, _)
\* str.split(delim) of the rest t, the piece begun being cur
split_from(t, delim, cur) ==
    IF t = <<>> THEN <<cur>>
    ELSE IF Len(t) >= Len(delim) /\ SubSeq(t, 1, Len(delim)) = delim
         THEN <<cur>> \o split_from(SubSeq(t, Len(delim) + 1, Len(t)), delim, <<>>)
         ELSE split_from(Tail(t), delim, Append(cur, Head(t)))

\* str.split(delim)
split(t, delim) == split_from(t, delim, <<>>)

RECURSIVE stripped_nonempty(_)
\* [s.strip() for s in pieces if s.strip()]
stripped_nonempty(pieces) ==
    IF pieces = <<>> THEN <<>>
    ELSE LET rest == stripped_nonempty(Tail(pieces)) IN
         IF strip(Head(pieces)) # <<>> THEN <<strip(Head(pieces))>> \o rest ELSE rest

\* chunks.append(current_chunk.strip()) without the test before it
append_stripped_unchecked(chunks_, current) == Append(chunks_, strip(current))

\* if current_chunk.strip(): chunks.append(current_chunk.strip())
append_stripped(chunks_, current) ==
    IF strip(current) # <<>> THEN Append(chunks_, strip(current)) ELSE chunks_

RECURSIVE split_words(_, _, _, _)
\* the loop over the words of a sentence longer than max_chunk_size
split_words(words, chunks_, current, max_chunk_size) ==
    IF words = <<>> THEN [chunks |-> chunks_, current |-> current]
    ELSE LET word == Head(words) IN
         IF Len(current) + Len(word) + 1 <= max_chunk_size
         THEN split_words(Tail(words), chunks_, current \o word \o <<" ">>,
                          max_chunk_size)
         ELSE split_words(Tail(words), append_stripped(chunks_, current),
                          word \o <<" ">>, max_chunk_size)

\* a sentence loop that never splits a sentence: the sentence starts the
\* new chunk whatever its length
start_chunk_whole(sentence_with_period, chunks_, max_chunk_size) ==
    [chunks |-> chunks_, current |-> sentence_with_period]

\* the else branch of the sentence loop: the sentence starts a new chunk,
\* or is split on spaces when it is too long itself
start_chunk(sentence_with_period, chunks_, max_chunk_size) ==
    IF Len(sentence_with_period) <= max_chunk_size
    THEN [chunks |-> chunks_, current |-> sentence_with_period]
    ELSE LET w == split_words(split(sentence_with_period, <<" ">>), chunks_, <<>>,
                              max_chunk_size)
         IN [chunks |-> append_stripped(w.chunks, w.current), current |-> <<>>]

RECURSIVE pack_sentences(_, _, _, _)
\* the loop over the sentences
pack_sentences(sentences, chunks_, current, max_chunk_size) ==
    IF sentences = <<>> THEN [chunks |-> chunks_, current |-> current]
    ELSE LET sentence_with_period == Head(sentences) \o <<".", " ">>
             test_chunk == current \o sentence_with_period
         IN IF Len(test_chunk) <= max_chunk_size
            THEN pack_sentences(Tail(sentences), chunks_, test_chunk, max_chunk_size)
            ELSE LET n == start_chunk(sentence_with_period,
                                      append_stripped(chunks_, current), max_chunk_size)
                 IN pack_sentences(Tail(sentences), n.chunks, n.current, max_chunk_size)

\* split_text_into_chunks(text, max_chunk_size)
split_text_into_chunks(text, max_chunk_size) ==
    LET sentences == stripped_nonempty(split(replace_newlines(text), <<".", " ">>))
        p == pack_sentences(sentences, <<>>, <<>>, max_chunk_size)
    IN append_stripped(p.chunks, p.current)

----------------------------------------------------------------------------
(* State after PDFManagerApp.__init__, a first select_file and a first      *)
(* select_content_file: a PDF is selected on both tabs, the process and     *)
(* generate buttons are enabled, no worker exists yet.                      *)

\* split_text_into_chunks not called
NoSegmentation == [pc |-> "idle", text |-> <<>>, max_chunk_size |-> 0, chunks |-> <<>>]

NoTextData == [kind |-> "other", text |-> <<>>, chunks |-> <<>>]

\* everything but the texts of the selected PDFs
InitOther ==
    /\ wpc = "none"
    /\ text_data = NoTextData
    /\ is_chunked = FALSE
    /\ prompt_type = "summary"
    /\ custom_prompt = <<>>
    /\ answer_length = <<>>
    /\ connected = FALSE
    /\ content_connected = FALSE
    /\ qa_connected = FALSE
    /\ result = <<>>
    /\ chunks = <<>>
    /\ task = <<>>
    /\ outcome = <<>>
    /\ sem = NewSemaphore
    /\ summaries = <<>>
    /\ events = <<>>
    /\ calls = <<>>
    /\ pending = <<>>
    /\ content_pending = <<>>
    /\ process_button = TRUE
    /\ export_button = FALSE
    /\ final_summary = <<>>
    /\ msgbox = <<>>
    /\ notes = <<>>
    /\ generate_content_button = TRUE
    /\ export_content_button = FALSE
    /\ generated_content = <<>>
    /\ requests = 0
    /\ qa_pending = <<>>
    /\ file_path = "A.pdf"
    /\ current_pdf_filename = "A.pdf"
    /\ current_pdf_topic = <<>>
    /\ orphans = <<>>
    /\ ask_question_button = TRUE
    /\ answer_area = <<>>

\* both selected PDFs hold text
Init ==
    /\ InitOther
    /\ pdf_text = FullText
    /\ content_pdf_text = FullText
    /\ seg = NoSegmentation

----------------------------------------------------------------------------
(* SummarizationWorker *)

NoWorkerRunning ==
    /\ wpc \in {"none", "finished"}
    /\ pending = <<>> /\ content_pending = <<>> /\ qa_pending = <<>>

\* SummarizationWorker.__init__ followed by start(); slot is the handler
\* finished_signal was connected to in between
NewWorker(td, chunked, ptype, custom, length, slot) ==
    /\ text_data' = td
    /\ is_chunked' = chunked
    /\ prompt_type' = ptype
    /\ custom_prompt' = custom
    /\ answer_length' = length
    /\ connected' = (slot = "summarization_finished")
    /\ content_connected' = (slot = "content_generation_finished")
    /\ qa_connected' = (slot = "qa_finished")
    /\ result' = <<>>
    /\ chunks' = <<>>
    /\ task' = <<>>
    /\ outcome' = <<>>
    /\ sem' = NewSemaphore
    /\ summaries' = <<>>
    /\ events' = <<>>
    /\ calls' = <<>>
    /\ wpc' = "created"
    /\ requests' = requests + 1

\* a worker constructed and started by a caller other than the GUI, with
\* any arguments; none of its signals is connected
Construct ==
    /\ NoWorkerRunning
    /\ requests < MaxRequests
    /\ \E td \in TextDataInputs, chunked \in BOOLEAN, ptype \in PromptTypeInputs :
          NewWorker(td, chunked, ptype, <<>>, <<>>, "none")
    /\ UNCHANGED <<pending, content_pending, qa_pending, appVars, seg>>

\* the same with every prompt_type, custom_prompt and answer_length
ConstructPrompted ==
    /\ NoWorkerRunning
    /\ requests < MaxRequests
    /\ \E td \in PromptedTextDataInputs, chunked \in BOOLEAN,
          ptype \in AllPromptTypeInputs, custom \in CustomPromptInputs,
          length \in AnswerLengthInputs :
          NewWorker(td, chunked, ptype, custom, length, "none")
    /\ UNCHANGED <<pending, content_pending, qa_pending, appVars, seg>>

\* run() without its except clause: the ValueError leaves run()
run_branch_raise(td, chunked) ==
    IF td.kind = "str" /\ ~chunked THEN "full"
    ELSE IF td.kind = "list" \/ chunked THEN "chunks"
    ELSE "escaped"

\* the branch run() takes
run_branch(td, chunked) ==
    IF td.kind = "str" /\ ~chunked THEN "full"
    ELSE IF td.kind = "list" \/ chunked THEN "chunks"
    ELSE "invalid"

\* chunks = self.text_data if isinstance(self.text_data, list) else [self.text_data]
run_chunks(td) ==
    IF td.kind = "list" THEN td.chunks
    ELSE IF td.kind = "str" THEN <<td.text>>
    ELSE <<<<"None">>>>

\* a run() that emits finished_signal only for a result that is no error
\* marker
EmitFinished_unless_error(evs, text) ==
    LET emitted == ~(text # <<>> /\ text[1] = "[ERROR]") IN
    /\ events' = IF emitted THEN Append(evs, [sig |-> "finished", msg |-> text]) ELSE evs
    /\ pending' = IF emitted /\ connected THEN Append(pending, text) ELSE pending
    /\ content_pending' =
          IF emitted /\ content_connected THEN Append(content_pending, text)
          ELSE content_pending
    /\ qa_pending' = IF emitted /\ qa_connected THEN Append(qa_pending, text) ELSE qa_pending
    /\ wpc' = "finished"

\* self.finished_signal.emit(self.result), the last statement of run()
EmitFinished(evs, text) ==
    /\ events' = Append(evs, FinishedEvent(text))
    /\ pending' = IF connected THEN Append(pending, text) ELSE pending
    /\ content_pending' =
          IF content_connected THEN Append(content_pending, text) ELSE content_pending
    /\ qa_pending' = IF qa_connected THEN Append(qa_pending, text) ELSE qa_pending
    /\ wpc' = "finished"

\* self.prompts as __init__ builds it; an instruction is one token, named
\* by its opening words
prompts(custom) ==
    [summary |-> <<"You are an expert note-taking assistant ...">>,
     brief |-> <<"Create a concise brief overview ...">>,
     qna |-> <<"Generate 5 important questions and detailed answers ...">>,
     questions |-> <<"Create 10 practice questions ...">>,
     professor |-> IF custom # <<>> THEN custom
                   ELSE <<"You are a helpful professor assistant. ...">>]

\* a lookup in which a custom_prompt replaces the instruction of every type
base_prompt_custom_first(ptype, custom) ==
    IF custom # <<>> THEN custom
    ELSE IF ptype \in PromptTypes THEN prompts(custom)[ptype]
    ELSE prompts(custom)["summary"]

\* self.prompts.get(self.prompt_type, self.prompts["summary"])
base_prompt(ptype, custom) ==
    IF ptype \in PromptTypes THEN prompts(custom)[ptype] ELSE prompts(custom)["summary"]

\* a prompt that takes the length requirement for every prompt_type
build_prompt_any_type(ptype, custom, length) ==
    IF length # <<>>
    THEN <<"Answer length: ">> \o length \o <<". ">> \o base_prompt(ptype, custom)
    ELSE base_prompt(ptype, custom)

\* prompt, as process_full_text and process_chunk both compute it
build_prompt(ptype, custom, length) ==
    IF length # <<>> /\ ptype = "professor"
    THEN <<"Answer length: ">> \o length \o <<". ">> \o base_prompt(ptype, custom)
    ELSE base_prompt(ptype, custom)

Call(unit, content) ==
    [unit |-> unit, system |-> build_prompt(prompt_type, custom_prompt, answer_length),
     user |-> content, temperature |-> temperature(prompt_type)]

\* run() entering process_full_text: up to the await of client.chat
RunFull ==
    /\ wpc = "created"
    /\ run_branch(text_data, is_chunked) = "full"
    /\ events' = Append(events, OutputEvent(<<"Sending full text to model...">>))
    /\ calls' = Append(calls, Call(0, text_data.text))
    /\ wpc' = "full"
    /\ UNCHANGED <<configVars, result, chunks, task,
                   outcome, sem, summaries, pending, content_pending, qa_pending, requests, appVars, seg>>

\* a unit whose call has not ended, and one whose call ended with text
NoOutcome == [status |-> "none", text |-> <<>>]
Outcome(ok, text) == [status |-> IF ok THEN "ok" ELSE "error", text |-> text]

\* an except clause that leaves self.result as it was
full_result_swallow(ok, content, e) == IF ok THEN Response(content) ELSE <<>>

\* self.result after the call of process_full_text ended
full_result(ok, content, e) == IF ok THEN Response(content) ELSE full_error_msg(e)

\* the signals process_full_text emits after the call ended
full_events(ok, e) ==
    IF ok THEN <<ProgressEvent(100), OutputEvent(<<"Processing complete.">>)>>
    ELSE <<OutputEvent(full_error_msg(e))>>

\* the call of process_full_text returns (ok) or raises; run() then emits
\* finished_signal
FullEnds(ok) ==
    /\ wpc = "full"
    /\ \E e \in ErrorTexts :
         /\ result' = full_result(ok, text_data.text, e)
         /\ outcome' = <<Outcome(ok, result')>>
         /\ EmitFinished(events \o full_events(ok, e), result')
    /\ UNCHANGED <<configVars, chunks, task,
                   sem, summaries, calls, requests, appVars, seg>>

FullReturns == FullEnds(TRUE)
FullRaises == FullEnds(FALSE)

\* run() raising ValueError, caught by its except clause
RunInvalid ==
    /\ wpc = "created"
    /\ run_branch(text_data, is_chunked) = "invalid"
    /\ result' = fatal_error_msg("Invalid text_data type for processing")
    /\ EmitFinished(events, result')
    /\ UNCHANGED <<configVars, chunks, task,
                   outcome, sem, summaries, calls, requests, appVars, seg>>

\* run() entering process_chunks: up to the await of asyncio.gather
RunChunks ==
    /\ wpc = "created"
    /\ run_branch(text_data, is_chunked) = "chunks"
    /\ chunks' = run_chunks(text_data)
    /\ events' = Append(events,
          OutputEvent(<<"Split into ", ToString(Len(chunks')), " chunks for processing...">>))
    /\ sem' = NewSemaphore
    /\ summaries' = <<>>
    /\ task' = [i \in 1..Len(chunks') |-> "new"]
    /\ outcome' = [i \in 1..Len(chunks') |-> NoOutcome]
    /\ wpc' = "gather"
    /\ UNCHANGED <<configVars, result, calls,
                   pending, content_pending, qa_pending, requests, appVars, seg>>

\* process_chunk from the acquired semaphore to the await of client.chat
IssueChunkCall(i) ==
    /\ events' = Append(events, OutputEvent(
          <<"Processing chunk ", ToString(i), "/", ToString(Len(chunks)), "...">>))
    /\ calls' = Append(calls, Call(i, chunks[i]))
    /\ task' = [task EXCEPT ![i] = "inflight"]

\* tasks that take their first step in any order
first_step_any(t, i) == TRUE

\* gather wraps the coroutines in tasks in list order and the loop runs
\* their first steps in that order: task i starts after the tasks before it
first_step_due(t, i) == \A j \in 1..(i - 1) : t[j] # "new"

\* the loop resumes the tasks in the order their futures were set, and
\* _wake_up_next sets them from the front of the waiters: the task resumed
\* is the first waiter
resume_due(s, i) ==
    /\ s.waiters # <<>>
    /\ Head(s.waiters).task = i
    /\ Head(s.waiters).done

\* first step of task i: the tasks of gather start in list order.  A call
\* may end (raise at once) before the next task takes its first step, so
\* starts and ends interleave freely.
TaskStart(i) ==
    /\ wpc = "gather"
    /\ task[i] = "new"
    /\ first_step_due(task, i)
    /\ IF locked(sem)
       THEN /\ sem' = acquire_wait(sem, i)
            /\ task' = [task EXCEPT ![i] = "waiting"]
            /\ UNCHANGED <<events, calls>>
       ELSE /\ sem' = acquire_now(sem)
            /\ IssueChunkCall(i)
    /\ UNCHANGED <<wpc, configVars, result, chunks,
                   outcome, summaries, pending, content_pending, qa_pending, requests, appVars, seg>>

\* task i resumes in acquire() after its future was set
TaskResume(i) ==
    /\ wpc = "gather"
    /\ task[i] = "waiting"
    /\ resume_due(sem, i)
    /\ sem' = acquire_resume(sem, i)
    /\ IssueChunkCall(i)
    /\ UNCHANGED <<wpc, configVars, result, chunks,
                   outcome, summaries, pending, content_pending, qa_pending, requests, appVars, seg>>

\* the text chunk i leaves: summary, or error_msg
chunk_result(ok, i, content, e) ==
    IF ok THEN Response(content) ELSE chunk_error_msg(i, e)

\* an except clause that does not append its error_msg
chunk_summaries_skip_errors(s, ok, entry) == IF ok THEN Append(s, entry) ELSE s

\* summaries after the call of chunk i ended: both branches append
chunk_summaries(s, ok, entry) == Append(s, entry)

\* the signal process_chunk emits after the call of chunk i ended
chunk_event(ok, i, n, e) ==
    IF ok THEN ProgressEvent(progress_value(i, n))
    ELSE OutputEvent(chunk_error_msg(i, e))

\* the call of chunk i returns (ok) or raises; the task leaves the
\* semaphore and ends
ChunkEnds(i, ok) ==
    /\ wpc = "gather"
    /\ task[i] = "inflight"
    /\ \E e \in ErrorTexts :
         LET entry == chunk_result(ok, i, chunks[i], e) IN
         /\ summaries' = chunk_summaries(summaries, ok, entry)
         /\ events' = Append(events, chunk_event(ok, i, Len(chunks), e))
         /\ outcome' = [outcome EXCEPT ![i] = Outcome(ok, entry)]
    /\ sem' = aexit(sem, ~ok)
    /\ task' = [task EXCEPT ![i] = "done"]
    /\ UNCHANGED <<wpc, configVars, result, chunks,
                   calls, pending, content_pending, qa_pending, requests, appVars, seg>>

ChunkReturns == \E i \in 1..Len(task) : ChunkEnds(i, TRUE)
ChunkRaises == \E i \in 1..Len(task) : ChunkEnds(i, FALSE)
ChunkStarts == \E i \in 1..Len(task) : TaskStart(i)
ChunkResumes == \E i \in 1..Len(task) : TaskResume(i)

\* a wait that is over with the first task that ends
gather_first(t) == \E i \in 1..Len(t) : t[i] = "done"

\* await asyncio.gather(*tasks) is over
gather_done(t) == \A i \in 1..Len(t) : t[i] = "done"

\* gather returns, process_chunks combines the results, run() emits
\* finished_signal
Combine ==
    /\ wpc = "gather"
    /\ gather_done(task)
    /\ result' = combine(prompt_type, summaries)
    /\ EmitFinished(events, result')
    /\ UNCHANGED <<configVars, chunks, task,
                   outcome, sem, summaries, calls, requests, appVars, seg>>

----------------------------------------------------------------------------
(* PDFManagerApp *)

\* a check that finds text in every PDF
text_found_always(text) == TRUE

\* text.strip() is not empty
text_found(text) == strip(text) # <<>>

Dialog(kind, title, text) == [kind |-> kind, title |-> title, text |-> text]

\* the process runs: it was not aborted by the destruction of a running
\* QThread
Alive == wpc # "aborted"

\* str.split(): the words between runs of white space
RECURSIVE words_from(_, _)
words_from(t, cur) ==
    IF t = <<>> THEN IF cur = <<>> THEN <<>> ELSE <<cur>>
    ELSE IF Head(t) \in Whitespace
         THEN (IF cur = <<>> THEN <<>> ELSE <<cur>>) \o words_from(Tail(t), <<>>)
         ELSE words_from(Tail(t), Append(cur, Head(t)))

Upper == {"A", "B"}
Lower == {"a", "b"}

\* w.isalpha() and (w.isupper() or w.istitle())
cap_word(w) ==
    /\ w # <<>>
    /\ \A k \in 1..Len(w) : w[k] \in Upper \cup Lower
    /\ \/ \A k \in 1..Len(w) : w[k] \in Upper
       \/ w[1] \in Upper /\ \A k \in 2..Len(w) : w[k] \in Lower

RECURSIVE rstrip_periods(_)
\* sentence.rstrip('.')
rstrip_periods(t) ==
    IF t # <<>> /\ t[Len(t)] = "." THEN rstrip_periods(SubSeq(t, 1, Len(t) - 1)) ELSE t

\* the test of extract_topic on a sentence: 3 to 10 words, more than half
\* of them capitalized
title_like(sentence) ==
    LET words == words_from(sentence, <<>>)
        cap_words == {k \in 1..Len(words) : cap_word(words[k])}
    IN /\ 3 <= Len(words) /\ Len(words) <= 10
       /\ 2 * Cardinality(cap_words) > Len(words)

\* extract_topic(text[:1000]); the texts are shorter than 1000 characters
extract_topic(text_snippet) ==
    LET sentences == stripped_nonempty(split(text_snippet, <<".", " ">>))
        first3 == {k \in 1..Len(sentences) : k <= 3 /\ title_like(sentences[k])}
    IN IF first3 # {}
       THEN rstrip_periods(sentences[CHOOSE k \in first3 : \A l \in first3 : k <= l])
       ELSE IF sentences # <<>> THEN sentences[1]
       ELSE <<"PDF Content Summary">>

\* the except clause of process_pdf, the extraction having raised
process_pdf_fails ==
    /\ msgbox' = Append(msgbox, Dialog("critical", "Error", "Failed to process PDF"))
    /\ process_button' = TRUE
    /\ requests' = requests + 1
    /\ UNCHANGED <<wpc, configVars, result, chunks, task, outcome, sem, summaries,
                   events, calls, current_pdf_topic, orphans>>

\* process_pdf returning at "No text found in PDF"
process_pdf_rejects ==
    /\ msgbox' = Append(msgbox, Dialog("warning", "Error", "No text found in PDF"))
    /\ requests' = requests + 1
    /\ UNCHANGED <<wpc, configVars, result, chunks, task, outcome, sem, summaries,
                   events, calls, process_button, current_pdf_topic, orphans>>

\* self.worker refers to a summarization worker whose run() has not ended
WorkerReplaced == connected /\ wpc \in {"created", "full"}

\* the thread object self.worker referred to is destroyed while its thread
\* runs: the process aborts
process_pdf_aborts ==
    /\ wpc' = "aborted"
    /\ process_button' = FALSE
    /\ UNCHANGED <<configVars, result, chunks, task, outcome, sem, summaries,
                   events, calls, requests, msgbox, orphans>>

\* process_pdf starting its worker on the whole text.  The model follows
\* the worker self.worker refers to: a worker of another kind has ended
\* before; a summarization worker still running is replaced, and either
\* runs on without a reference or takes the process down with it
process_pdf_starts(text) ==
    /\ current_pdf_topic' = extract_topic(text)
    /\ \/ /\ NoWorkerRunning \/ (connected /\ wpc = "finished")
          /\ orphans' = orphans
          /\ process_button' = FALSE
          /\ NewWorker([kind |-> "str", text |-> text, chunks |-> <<>>],
                       FALSE, "summary", <<>>, <<>>, "summarization_finished")
          /\ UNCHANGED msgbox
       \/ /\ WorkerReplaced
          /\ orphans' = Append(orphans, text_data.text)
          /\ process_button' = FALSE
          /\ NewWorker([kind |-> "str", text |-> text, chunks |-> <<>>],
                       FALSE, "summary", <<>>, <<>>, "summarization_finished")
          /\ UNCHANGED msgbox
       \/ /\ WorkerReplaced
          /\ process_pdf_aborts

\* the body of process_pdf, text being what extract_text_from_pdf returns
\* for self.file_path
process_pdf_body(text) ==
    /\ Alive
    /\ requests < MaxRequests
    /\ \E raised \in BOOLEAN :
          IF raised THEN process_pdf_fails
          ELSE IF text_found(text) THEN process_pdf_starts(text)
          ELSE process_pdf_rejects

\* process_pdf behind a click on the process button
process_pdf ==
    /\ process_button
    /\ process_pdf_body(pdf_text)
    /\ UNCHANGED <<pending, content_pending, qa_pending, export_button, final_summary,
                   notes, generate_content_button, export_content_button,
                   generated_content, pdf_text, content_pdf_text, seg,
                   file_path, current_pdf_filename, qaVars>>

\* the PDFs the user can select, by name
Docs == {"A.pdf", "B.pdf"}

\* the text extract_text_from_pdf returns for each of them
DocText(doc) ==
    IF doc = "A.pdf" THEN FullText ELSE <<"B", " ", "B", " ", "B", ".", " ", "b">>

\* select_file with a PDF chosen in the dialog
select_file ==
    /\ Alive
    /\ \E doc \in Docs :
          /\ file_path' = doc
          /\ current_pdf_filename' = doc
          /\ pdf_text' = DocText(doc)
    /\ process_button' = TRUE
    /\ export_button' = FALSE
    /\ UNCHANGED <<workerVars, pending, content_pending, qa_pending, final_summary,
                   msgbox, notes, generate_content_button, export_content_button,
                   generated_content, content_pdf_text, seg, current_pdf_topic,
                   orphans, qaVars>>

\* process_selected_pdf with a PDF selected in the file browser: it sets
\* the selection and calls process_pdf
process_selected_pdf ==
    /\ \E doc \in Docs :
          /\ file_path' = doc
          /\ current_pdf_filename' = doc
          /\ pdf_text' = DocText(doc)
          /\ process_pdf_body(DocText(doc))
    /\ UNCHANGED <<pending, content_pending, qa_pending, export_button, final_summary,
                   notes, generate_content_button, export_content_button,
                   generated_content, content_pdf_text, seg, qaVars>>

\* run() of a worker self.worker no longer refers to ends: its call
\* returned (ok) or raised and its finished_signal, still connected,
\* reaches summarization_finished
OrphanEnds ==
    /\ Alive
    /\ \E i \in 1..Len(orphans), ok \in BOOLEAN, e \in ErrorTexts :
          /\ pending' = Append(pending, full_result(ok, orphans[i], e))
          /\ orphans' = SubSeq(orphans, 1, i - 1) \o SubSeq(orphans, i + 1, Len(orphans))
    /\ UNCHANGED <<workerVars, content_pending, qa_pending, process_button,
                   export_button, final_summary, msgbox, notes,
                   generate_content_button, export_content_button, generated_content,
                   pdf_text, content_pdf_text, seg, file_path, current_pdf_filename,
                   current_pdf_topic, qaVars>>

\* "Unknown" when current_pdf_filename is empty
note_filename(filename) == IF filename # "" THEN filename ELSE "Unknown"

\* save_note(content)
save_note(ns, content, filename) ==
    Append(ns, [content |-> content, filename |-> note_filename(filename)])

\* the message box summarization_finished ends with
finished_message(final) == "Summary generation completed!"

\* summarization_finished(final_summary), run by the GUI thread
summarization_finished ==
    /\ Alive
    /\ pending # <<>>
    /\ LET final == Head(pending) IN
         /\ final_summary' = final
         /\ process_button' = TRUE
         /\ export_button' = TRUE
         /\ notes' = save_note(notes, final, current_pdf_filename)
         /\ msgbox' = Append(msgbox, Dialog("information", "Success",
                                            finished_message(final)))
    /\ pending' = Tail(pending)
    /\ UNCHANGED <<workerVars, content_pending, qa_pending, generate_content_button,
                   export_content_button, generated_content, pdf_text,
                   content_pdf_text, seg, docVars, qaVars>>

\* content_type_map.get(selected_type, "summary")
content_type_map(selected_type) ==
    CASE selected_type = "Summary" -> "summary"
      [] selected_type = "Brief Overview" -> "brief"
      [] selected_type = "Q&A" -> "qna"
      [] selected_type = "Practice Questions" -> "questions"
      [] OTHER -> "summary"

\* custom_prompt as generate_content builds it
content_custom_prompt(selected_type, question_count, question_type) ==
    IF selected_type = "Q&A"
    THEN <<"Generate ", question_count, " important questions and detailed answers ...",
           "Question type: ", question_type>>
    ELSE IF selected_type = "Practice Questions"
    THEN <<"Create ", question_count, " practice questions based on the following text. ",
           "Include ", question_type, " questions. ", "Number each question clearly.">>
    ELSE <<>>

\* the except clause of generate_content, the extraction having raised
generate_content_fails ==
    /\ msgbox' = Append(msgbox, Dialog("critical", "Error", "Failed to generate content"))
    /\ generate_content_button' = TRUE
    /\ requests' = requests + 1
    /\ UNCHANGED <<wpc, configVars, result, chunks, task, outcome, sem, summaries,
                   events, calls>>

\* generate_content returning at "No text found in PDF"
generate_content_rejects ==
    /\ msgbox' = Append(msgbox, Dialog("warning", "Error", "No text found in PDF"))
    /\ requests' = requests + 1
    /\ UNCHANGED <<wpc, configVars, result, chunks, task, outcome, sem, summaries,
                   events, calls, generate_content_button>>

\* generate_content starting its worker on the whole text
generate_content_starts(text, selected_type, question_count, question_type) ==
    /\ NoWorkerRunning
    /\ generate_content_button' = FALSE
    /\ NewWorker([kind |-> "str", text |-> text, chunks |-> <<>>], FALSE,
                 content_type_map(selected_type),
                 content_custom_prompt(selected_type, question_count, question_type),
                 <<>>, "content_generation_finished")
    /\ UNCHANGED msgbox

\* generate_content behind a click on the generate button; one worker at a
\* time as for process_pdf
generate_content ==
    /\ Alive
    /\ generate_content_button
    /\ requests < MaxRequests
    /\ \E raised \in BOOLEAN, selected_type \in ContentTypeChoices,
          question_count \in QuestionCountInputs, question_type \in QuestionTypeInputs :
          IF raised THEN generate_content_fails
          ELSE IF text_found(content_pdf_text)
               THEN generate_content_starts(content_pdf_text, selected_type,
                                            question_count, question_type)
               ELSE generate_content_rejects
    /\ UNCHANGED <<pending, content_pending, qa_pending, process_button, export_button,
                   final_summary, notes, export_content_button, generated_content,
                   pdf_text, content_pdf_text, seg, docVars, qaVars>>

\* content_generation_finished(final_content), run by the GUI thread
content_generation_finished ==
    /\ Alive
    /\ content_pending # <<>>
    /\ generated_content' = Head(content_pending)
    /\ generate_content_button' = TRUE
    /\ export_content_button' = TRUE
    /\ msgbox' = Append(msgbox, Dialog("information", "Success",
                                       "Content generation completed!"))
    /\ content_pending' = Tail(content_pending)
    /\ UNCHANGED <<workerVars, pending, qa_pending, process_button, export_button,
                   final_summary, notes, pdf_text, content_pdf_text, seg, docVars,
                   qaVars>>

\* current_pdf_text, extracted by select_professor_pdf
current_pdf_text == FullText

\* the questions typed into question_input: none, and one
QuestionInputs == {<<>>, <<"What is it about?">>}

\* the items of answer_length_combo
AnswerLengthChoices ==
    {"Brief (1-2 sentences)", "Medium (3-5 sentences)", "Detailed (1 paragraph)",
     "Comprehensive (2+ paragraphs)"}

\* length_map.get(self.answer_length_combo.currentText(), "")
length_map(choice) ==
    CASE choice = "Brief (1-2 sentences)" -> <<"Brief answer (1-2 sentences)">>
      [] choice = "Medium (3-5 sentences)" -> <<"Medium-length answer (3-5 sentences)">>
      [] choice = "Detailed (1 paragraph)" -> <<"Detailed answer (1 paragraph)">>
      [] choice = "Comprehensive (2+ paragraphs)" ->
            <<"Comprehensive answer (2+ paragraphs)">>
      [] OTHER -> <<>>

\* the prompt ask_question sends as the text of the request; the text is
\* shorter than context_limit
qa_prompt(question) ==
    <<"Based on the following text, please answer this question: ">> \o question
       \o <<"\nContext text:\n">> \o current_pdf_text \o <<"...">>

\* the custom_prompt ask_question gives its worker
qa_custom_prompt ==
    <<"You are a helpful professor assistant. Answer questions clearly ...">>

\* ask_question returning at "Please enter a question"
ask_question_rejects ==
    /\ msgbox' = Append(msgbox, Dialog("warning", "Warning", "Please enter a question"))
    /\ requests' = requests + 1
    /\ UNCHANGED <<wpc, configVars, result, chunks, task, outcome, sem, summaries,
                   events, calls, ask_question_button, answer_area>>

\* the except clause of ask_question
ask_question_fails(question) ==
    /\ answer_area' = answer_area \o <<<<"Q: ">> \o question, <<"Thinking...">>>>
    /\ msgbox' = Append(msgbox, Dialog("critical", "Error", "Failed to process question"))
    /\ ask_question_button' = TRUE
    /\ requests' = requests + 1
    /\ UNCHANGED <<wpc, configVars, result, chunks, task, outcome, sem, summaries,
                   events, calls>>

\* ask_question starting its worker on the prompt
ask_question_starts(question, choice) ==
    /\ NoWorkerRunning
    /\ answer_area' = answer_area \o <<<<"Q: ">> \o question, <<"Thinking...">>>>
    /\ ask_question_button' = FALSE
    /\ NewWorker([kind |-> "str", text |-> qa_prompt(question), chunks |-> <<>>], FALSE,
                 "professor", qa_custom_prompt, length_map(choice), "qa_finished")
    /\ UNCHANGED msgbox

\* ask_question behind a click on the ask button; one worker at a time as
\* for process_pdf
ask_question ==
    /\ Alive
    /\ ask_question_button
    /\ current_pdf_text # <<>>
    /\ requests < MaxRequests
    /\ \E question \in QuestionInputs, choice \in AnswerLengthChoices,
          raised \in BOOLEAN :
          IF question = <<>> THEN ask_question_rejects
          ELSE IF raised THEN ask_question_fails(question)
          ELSE ask_question_starts(question, choice)
    /\ UNCHANGED <<pending, content_pending, qa_pending, process_button, export_button,
                   final_summary, notes, generate_content_button, export_content_button,
                   generated_content, pdf_text, content_pdf_text, seg, docVars>>

\* qa_finished(answer), run by the GUI thread
qa_finished ==
    /\ Alive
    /\ qa_pending # <<>>
    /\ answer_area' = answer_area \o <<<<"A: ">> \o Head(qa_pending), <<"---">>>>
    /\ ask_question_button' = TRUE
    /\ qa_pending' = Tail(qa_pending)
    /\ UNCHANGED <<workerVars, pending, content_pending, process_button, export_button,
                   final_summary, msgbox, notes, generate_content_button,
                   export_content_button, generated_content, pdf_text,
                   content_pdf_text, seg, docVars>>

----------------------------------------------------------------------------
(* A caller of split_text_into_chunks *)

\* split_text_into_chunks(text, max_chunk_size) returns
SegSplit ==
    /\ seg.pc = "called"
    /\ seg' = [seg EXCEPT !.pc = "returned",
                          !.chunks = split_text_into_chunks(seg.text, seg.max_chunk_size)]
    /\ UNCHANGED <<workerVars, appVars, pending, content_pending, qa_pending>>

----------------------------------------------------------------------------

Next ==
    \/ Construct
    \/ RunFull
    \/ FullReturns
    \/ FullRaises
    \/ RunInvalid
    \/ RunChunks
    \/ ChunkStarts
    \/ ChunkResumes
    \/ ChunkReturns
    \/ ChunkRaises
    \/ Combine
    \/ process_pdf
    \/ summarization_finished
    \/ generate_content
    \/ content_generation_finished

Spec == Init /\ [][Next]_vars

\* the steps of the worker thread: run() is scheduled once started, the
\* event loop runs every ready task, every inference call returns or raises
WorkerStep ==
    \/ RunFull
    \/ FullReturns
    \/ FullRaises
    \/ RunInvalid
    \/ RunChunks
    \/ ChunkStarts
    \/ ChunkResumes
    \/ ChunkReturns
    \/ ChunkRaises
    \/ Combine

FairSpec ==
    Spec /\ WF_vars(WorkerStep) /\ WF_vars(summarization_finished)
         /\ WF_vars(content_generation_finished)

\* workers constructed with every prompt_type, custom_prompt and
\* answer_length
PromptNext ==
    \/ ConstructPrompted
    \/ RunFull
    \/ FullReturns
    \/ FullRaises
    \/ RunInvalid
    \/ RunChunks
    \/ ChunkStarts
    \/ ChunkResumes
    \/ ChunkReturns
    \/ ChunkRaises
    \/ Combine

PromptSpec == Init /\ [][PromptNext]_vars

\* the GUI on PDFs of every kind: with text, empty, white space only
AppInit ==
    /\ InitOther
    /\ pdf_text \in PdfTexts
    /\ content_pdf_text \in PdfTexts
    /\ seg = NoSegmentation

AppNext ==
    \/ process_pdf
    \/ summarization_finished
    \/ generate_content
    \/ content_generation_finished
    \/ RunFull
    \/ FullReturns
    \/ FullRaises

AppSpec == AppInit /\ [][AppNext]_vars

\* the content tab next to workers constructed with every prompt_type and
\* custom_prompt
ContentNext ==
    \/ PromptNext
    \/ generate_content
    \/ content_generation_finished

ContentSpec == Init /\ [][ContentNext]_vars

\* the three tabs, each request made on the whole text of its PDF
TriggerNext ==
    \/ process_pdf
    \/ generate_content
    \/ ask_question
    \/ summarization_finished
    \/ content_generation_finished
    \/ qa_finished
    \/ RunFull
    \/ FullReturns
    \/ FullRaises

\* the worker thread runs once started and its inference call returns or
\* raises; the GUI thread delivers every queued finished_signal
TriggerSpec ==
    /\ Init /\ [][TriggerNext]_vars
    /\ WF_vars(RunFull \/ FullReturns \/ FullRaises)
    /\ WF_vars(summarization_finished)
    /\ WF_vars(content_generation_finished)
    /\ WF_vars(qa_finished)

\* the processor tab with the user selecting PDFs at any time
DocNext ==
    \/ select_file
    \/ process_selected_pdf
    \/ process_pdf
    \/ summarization_finished
    \/ OrphanEnds
    \/ RunFull
    \/ FullReturns
    \/ FullRaises

DocSpec == Init /\ [][DocNext]_vars

\* the alphabet of the texts given to split_text_into_chunks
Alphabet == {"a", ".", " ", "\n"}

\* every text of at most n characters
TextsUpTo(n) == UNION {[1..k -> Alphabet] : k \in 0..n}

\* split_text_into_chunks called on any text with any max_chunk_size
SegInit ==
    /\ InitOther
    /\ pdf_text = FullText
    /\ content_pdf_text = FullText
    /\ seg \in {[pc |-> "called", text |-> t, max_chunk_size |-> m, chunks |-> <<>>] :
                  t \in TextsUpTo(MaxTextLen), m \in 1..MaxChunkSize}

SegSpec == SegInit /\ [][SegSplit]_vars

\* the words of the sentences: a short one and a long one
SentenceWords == {<<"a">>, <<"a", "a", "a">>}

\* sentences of 1..MaxWords words separated by single spaces, no period
SentenceInputs ==
    {join(" ", ws) : ws \in UNION {[1..k -> SentenceWords] : k \in 1..MaxWords}}

RECURSIVE join_texts(_, _)
\* delim.join(parts), delim a text
join_texts(delim, parts) ==
    IF parts = <<>> THEN <<>>
    ELSE IF Len(parts) = 1 THEN parts[1]
    ELSE parts[1] \o delim \o join_texts(delim, Tail(parts))

\* texts of 1..MaxSentences sentences separated by '. '
SentenceTexts ==
    {join_texts(<<".", " ">>, sns) :
        sns \in UNION {[1..k -> SentenceInputs] : k \in 1..MaxSentences}}

\* split_text_into_chunks called on a text made of sentences
PackInit ==
    /\ InitOther
    /\ pdf_text = FullText
    /\ content_pdf_text = FullText
    /\ seg \in {[pc |-> "called", text |-> t, max_chunk_size |-> m, chunks |-> <<>>] :
                  t \in SentenceTexts, m \in 1..MaxPackSize}

PackSpec == PackInit /\ [][SegSplit]_vars

----------------------------------------------------------------------------
(* Vocabulary of the properties *)

ChunkMode == wpc \in {"gather", "finished"} /\ run_branch(text_data, is_chunked) = "chunks"
FullMode == wpc \in {"full", "finished"} /\ run_branch(text_data, is_chunked) = "full"

Units == 1..Len(task)
InFlight == {i \in Units : task[i] = "inflight"}
Granted == {i \in Units : task[i] = "waiting" /\ Woken(sem, i)}
Queued == {i \in Units : task[i] = "waiting" /\ ~Woken(sem, i)}
Failed == {i \in Units : outcome[i].status = "error"}
Succeeded == {i \in Units : outcome[i].status = "ok"}

Positions(seq, Test(_)) == {k \in 1..Len(seq) : Test(seq[k])}
IsProgress(ev) == ev.sig = "progress"
IsFinished(ev) == ev.sig = "finished"
IsErrorOutput(ev) == ev.sig = "output" /\ ev.msg[1] = "[ERROR]"
IsErrorMarker(text) == text # <<>> /\ text[1] = "[ERROR]"

\* the "Processing chunk i/N..." status of unit i
IsChunkStatus(ev, i) ==
    /\ ev.sig = "output"
    /\ Len(ev.msg) >= 2
    /\ ev.msg[1] = "Processing chunk "
    /\ ev.msg[2] = ToString(i)

\* the error status of unit i
IsChunkError(ev, i) ==
    /\ IsErrorOutput(ev)
    /\ Len(ev.msg) >= 3
    /\ ev.msg[3] = ToString(i)

CallsOf(i) == {k \in 1..Len(calls) : calls[k].unit = i}

RECURSIVE SplitAt(_, _, _)
\* text.split(sep), the current entry being cur
SplitAt(text, sep, cur) ==
    IF text = <<>> THEN <<cur>>
    ELSE IF Head(text) = sep THEN <<cur>> \o SplitAt(Tail(text), sep, <<>>)
    ELSE SplitAt(Tail(text), sep, Append(cur, Head(text)))

\* the entries joined into a final text
Entries(text, sep) == IF text = <<>> THEN <<>> ELSE SplitAt(text, sep, <<>>)

FinalEntries == Entries(result, separator(prompt_type))

\* the result texts of the units, in index order
IndexOrdered == [i \in Units |-> outcome[i].text]

Occurrences(seq, x) == Cardinality({k \in 1..Len(seq) : seq[k] = x})

----------------------------------------------------------------------------
(* C1: in process_chunks, whatever the number of units and whichever calls  *)
(* fail, never more than 2 inference calls are in flight.                   *)
C1_AtMostCapInFlight ==
    wpc = "gather" => Cardinality(InFlight) <= SemaphoreValue

\* both slots taken and a third unit queued behind them
C1_Witness ==
    /\ wpc = "gather"
    /\ Cardinality(InFlight) = SemaphoreValue
    /\ Queued # {}

(* C2: the final text of process_chunks joins the unit results in unit     *)
(* index order, whatever the order in which the units completed.            *)
C2_JoinedInIndexOrder ==
    (ChunkMode /\ wpc = "finished") => result = combine(prompt_type, IndexOrdered)

(* C3: the final text is built only after every task has completed, from   *)
(* exactly one result per unit: one inference call per unit, N entries      *)
(* joined, none dropped, none duplicated.                                   *)
C3_OneResultPerUnit ==
    /\ wpc = "gather" =>
          /\ result = <<>>
          /\ \A i \in Units : Cardinality(CallsOf(i)) <= 1
    /\ (ChunkMode /\ wpc = "finished") =>
          /\ \A i \in Units : task[i] = "done" /\ outcome[i].status # "none"
          /\ Len(calls) = Len(chunks)
          /\ \A i \in Units : Cardinality(CallsOf(i)) = 1
          /\ Len(FinalEntries) = Len(chunks)
          /\ \A i \in Units :
                Occurrences(FinalEntries, outcome[i].text)
                   = Occurrences(IndexOrdered, outcome[i].text)

\* three units joined, the second one having completed first
C3_Witness ==
    /\ ChunkMode /\ wpc = "finished"
    /\ Len(chunks) = 3
    /\ Len(FinalEntries) = 3
    /\ FinalEntries[1] = outcome[2].text
    /\ Failed # {} /\ Succeeded # {}

(* C4: a unit whose call fails gives its slot back and neither cancels nor  *)
(* blocks the others: every slot is free or held by a live task, a unit     *)
(* queues only while no slot is free or a woken unit is about to pass the   *)
(* free slot on, and once all units completed every unit has issued its     *)
(* call and all slots are free.                                             *)
C4_FailureReleasesSlot ==
    /\ wpc = "gather" =>
          /\ sem.value + Cardinality(InFlight) + Cardinality(Granted) = SemaphoreValue
          /\ Queued # {} => (sem.value = 0 \/ Granted # {})
    /\ (ChunkMode /\ wpc = "finished") =>
          /\ sem.value = SemaphoreValue
          /\ sem.waiters = <<>>
          /\ \A i \in Units : task[i] = "done" /\ CallsOf(i) # {}

\* all units done, the first two failed, and the third one issued its call
\* after both failures
C4_Witness ==
    /\ ChunkMode /\ wpc = "finished"
    /\ Len(chunks) >= 3
    /\ {1, 2} \subseteq Failed
    /\ 3 \in Succeeded
    /\ \E p, q, r \in 1..Len(events) :
          /\ p < r /\ q < r
          /\ IsChunkError(events[p], 1)
          /\ IsChunkError(events[q], 2)
          /\ IsChunkStatus(events[r], 3)

\* units completed when the event at position p was emitted
CompletedAt(p) ==
    Cardinality({k \in 1..p : IsProgress(events[k]) \/ IsErrorOutput(events[k])})

(* C5: the progress values of a multi-unit request are non-decreasing and   *)
(* each equals completed_units / total_units scaled to 0-100.               *)
C5_ProgressIsCompletedShare ==
    ChunkMode =>
       /\ \A p, q \in Positions(events, IsProgress) :
             p < q => events[p].pct <= events[q].pct
       /\ \A p \in Positions(events, IsProgress) :
             events[p].pct = (CompletedAt(p) * 100) \div Len(chunks)

(* C6: one progress notification is emitted after each unit completes,      *)
(* succeeded or failed: N units emit N progress notifications.              *)
C6_ProgressPerUnit ==
    (ChunkMode /\ wpc = "finished") =>
       Cardinality(Positions(events, IsProgress)) = Len(chunks)

(* C7: a failing unit contributes its '[ERROR]' marker verbatim to the      *)
(* final text, the texts of the other units appear unchanged, and the       *)
(* number of error-marker entries joined equals the number of failed units  *)
(* (none when no unit failed).                                              *)
C7_ErrorsVisibleInJoin ==
    (ChunkMode /\ wpc = "finished") =>
       /\ \A i \in Failed :
             /\ IsErrorMarker(outcome[i].text)
             /\ outcome[i].text[3] = ToString(i)
             /\ \E k \in 1..Len(FinalEntries) : FinalEntries[k] = outcome[i].text
       /\ \A i \in Succeeded :
             \E k \in 1..Len(FinalEntries) : FinalEntries[k] = <<"OK:">> \o chunks[i]
       /\ Cardinality(Positions(FinalEntries, IsErrorMarker)) = Cardinality(Failed)
       /\ Failed = {} => \A k \in 1..Len(result) : result[k] # "[ERROR]"

\* unit 2 of 3 failed, units 1 and 3 succeeded
C7_Witness ==
    /\ ChunkMode /\ wpc = "finished"
    /\ Len(chunks) = 3
    /\ Failed = {2}
    /\ Cardinality(Positions(FinalEntries, IsErrorMarker)) = 1

(* C8: process_full_text issues exactly one inference call and never        *)
(* retries; when the call fails the result is exactly the '[ERROR]' marker  *)
(* and nothing is aggregated; when it succeeds the result is the raw text.  *)
C8_SingleCallNoRetry ==
    FullMode =>
       /\ Len(calls) = 1
       /\ calls[1].user = text_data.text
       /\ summaries = <<>>
       /\ wpc = "finished" =>
             /\ outcome[1].status = "error" =>
                   \E e \in ErrorTexts :
                      result = <<"[ERROR]", " Failed to process text: ", e>>
             /\ outcome[1].status = "ok" => result = <<"OK:">> \o text_data.text
             /\ \A k \in 1..Len(result) :
                   result[k] \notin {separator("summary"), separator("qna")}

\* a whole-text request whose call failed
C8_Witness ==
    /\ FullMode /\ wpc = "finished"
    /\ outcome[1].status = "error"
    /\ IsErrorMarker(result)

FinishedEvents == Positions(events, IsFinished)

(* C9: every request terminates with a result: run() finishes whatever      *)
(* text_data, is_chunked and the failures, no exception leaves it, and      *)
(* finished_signal is emitted exactly once, carrying the final result.      *)
C9_RunAlwaysFinishes ==
    /\ [](/\ Cardinality(FinishedEvents) <= 1
          /\ wpc = "finished" <=> Cardinality(FinishedEvents) = 1
          /\ wpc = "finished" => events[Len(events)] = FinishedEvent(result))
    /\ (wpc = "created") ~> (wpc = "finished")

\* run() finished on a text_data that is neither a str nor a list
C9_Witness ==
    /\ wpc = "finished"
    /\ text_data.kind = "other" /\ ~is_chunked
    /\ Cardinality(FinishedEvents) = 1
    /\ result[1] = "[FATAL ERROR]"

\* the GUI thread has handled the finished_signal of a whole-text request
\* whose inference call failed
FailedRequestHandled ==
    /\ connected /\ wpc = "finished" /\ pending = <<>>
    /\ outcome[1].status = "error"

(* C10: when the single inference call of a whole-text request fails, the   *)
(* caller receives a failure notification distinct from the notification    *)
(* of a successful result and does not treat the request as successful.     *)
C10_FailureNotifiedDistinctly ==
    FailedRequestHandled =>
       /\ msgbox[Len(msgbox)].title # "Success"
       /\ ~export_button

(* C11: a request run with chunking disabled (is_chunked = False)          *)
(* processes exactly one unit: exactly one inference call is issued,        *)
(* whatever the form of text_data.                                          *)
C11_WholeModeOneCall ==
    (wpc = "finished" /\ ~is_chunked) => Len(calls) = 1

\* the text holds a space: it is more than a single word
HasSpace(t) == \E k \in 1..Len(t) : t[k] = " "

\* the units of a sequence of units
UnitsOf(units) == {units[j] : j \in 1..Len(units)}

\* the size ceilings that make a difference for the request text: above
\* its length plus the appended ". " the segmenter returns the same units
Ceilings == 1..(Len(text_data.text) + 2)

\* every unit sent to inference is a unit of the segmenter under ceiling m
\* and fits it, a single word excepted
SentUnitsSegmentedAt(m) ==
    \A k \in 1..Len(calls) :
       /\ calls[k].user \in UnitsOf(split_text_into_chunks(text_data.text, m))
       /\ Len(calls[k].user) <= m \/ ~HasSpace(calls[k].user)

(* C12: in a request run in chunked mode on a text, every unit passed to   *)
(* an inference call is a unit the segmenter produces from the request      *)
(* text, so that under the size ceiling no unit sent is longer than the     *)
(* ceiling unless it is a single word.                                      *)
C12_ChunkedUnitsAreSegments ==
    (is_chunked /\ text_data.kind = "str" /\ calls # <<>>) =>
       \E m \in Ceilings : SentUnitsSegmentedAt(m)

RECURSIVE Concatenated(_)
\* the texts of the units one after the other
Concatenated(units) ==
    IF units = <<>> THEN <<>> ELSE Head(units) \o Concatenated(Tail(units))

\* the text without its white space
WithoutWhitespace(t) == SelectSeq(t, LAMBDA c : c \notin Whitespace)

Returned == seg.pc = "returned"

(* C13: for every text and every max_chunk_size, the units returned by      *)
(* split_text_into_chunks, concatenated in order, equal the input up to     *)
(* white space: no other character is added, removed or reordered.          *)
C13_SegmentsReconstructInput ==
    Returned =>
       WithoutWhitespace(Concatenated(seg.chunks)) = WithoutWhitespace(seg.text)

ReturnedUnits == 1..Len(seg.chunks)

(* C14: for every text and every max_chunk_size >= 1, no unit returned by   *)
(* split_text_into_chunks is longer than max_chunk_size, unless the unit is *)
(* a single word, holding no space.                                         *)
C14_NoUnitOverCeiling ==
    Returned =>
       \A j \in ReturnedUnits :
          Len(seg.chunks[j]) <= seg.max_chunk_size \/ ~HasSpace(seg.chunks[j])

\* a single sentence of several words, longer than the ceiling, was split
\* on its spaces, and one of its words alone is above the ceiling
C14_Witness ==
    /\ Returned
    /\ HasSpace(strip(seg.text))
    /\ \A k \in 1..Len(seg.text) : seg.text[k] \in {"a", " "}
    /\ Len(seg.chunks) >= 2
    /\ \E j \in ReturnedUnits : Len(seg.chunks[j]) > seg.max_chunk_size

(* C15: split_text_into_chunks never returns an empty or whitespace-only    *)
(* unit, and an empty or whitespace-only text yields zero units.            *)
C15_NoEmptyUnit ==
    Returned =>
       /\ \A j \in ReturnedUnits : strip(seg.chunks[j]) # <<>>
       /\ strip(seg.text) = <<>> => seg.chunks = <<>>

\* a text of white space only came back as zero units
C15_Witness ==
    /\ Returned
    /\ seg.text # <<>>
    /\ strip(seg.text) = <<>>
    /\ seg.chunks = <<>>

RECURSIVE CutAfterPeriods(_, _)
\* the sentences of a text, each ending with its period, the single space
\* after a period left out; cur is the sentence begun
CutAfterPeriods(t, cur) ==
    IF t = <<>> THEN IF cur = <<>> THEN <<>> ELSE <<cur>>
    ELSE IF Head(t) = "."
         THEN <<Append(cur, ".")>>
              \o CutAfterPeriods(IF Len(t) >= 2 /\ t[2] = " " THEN Tail(Tail(t)) ELSE Tail(t),
                                 <<>>)
         ELSE CutAfterPeriods(Tail(t), Append(cur, Head(t)))

\* a sentence as it stands in such a text: words, then one period
IsSentence(sn) ==
    /\ Len(sn) >= 2
    /\ sn[Len(sn)] = "."
    /\ sn[1] = "a" /\ sn[Len(sn) - 1] = "a"
    /\ \A k \in 1..(Len(sn) - 1) : sn[k] \in {"a", " "}

\* the text is k >= 1 period-terminated sentences separated by single spaces
IsSentenceText(t) ==
    LET sns == CutAfterPeriods(t, <<>>) IN
    /\ sns # <<>>
    /\ \A k \in 1..Len(sns) : IsSentence(sns[k])
    /\ t = join(" ", sns)

\* each sentence fits the ceiling alone, no two consecutive ones together
OneSentencePerUnit(sns, m) ==
    /\ \A k \in 1..Len(sns) : Len(sns[k]) <= m
    /\ \A k \in 1..(Len(sns) - 1) : Len(sns[k]) + 1 + Len(sns[k + 1]) > m

(* C16: for a text of k period-terminated sentences separated by single     *)
(* spaces and a ceiling under which each sentence fits alone but no two     *)
(* consecutive ones fit together, split_text_into_chunks yields exactly k   *)
(* units in order, each one sentence of the input as it stands there.       *)
C16_OneUnitPerSentence ==
    (/\ Returned
     /\ IsSentenceText(seg.text)
     /\ OneSentencePerUnit(CutAfterPeriods(seg.text, <<>>), seg.max_chunk_size))
    => seg.chunks = CutAfterPeriods(seg.text, <<>>)

(* C17: the final text of a multi-unit request is the unit texts joined     *)
(* with '\n\n--- SECTION BREAK ---\n\n' when the content type is summary    *)
(* and with '\n\n' for every other content type; with a single unit it is   *)
(* that unit's text with no separator.                                      *)
C17_JoinSeparators ==
    (ChunkMode /\ wpc = "finished") =>
       /\ prompt_type = "summary" =>
             Entries(result, "\n\n--- SECTION BREAK ---\n\n") = summaries
       /\ prompt_type # "summary" => Entries(result, "\n\n") = summaries
       /\ Len(summaries) = 1 => result = summaries[1]

\* three unit texts of a summary request joined by two section breaks
C17_Witness ==
    /\ ChunkMode /\ wpc = "finished"
    /\ prompt_type = "summary"
    /\ Len(summaries) = 3
    /\ Occurrences(result, "\n\n--- SECTION BREAK ---\n\n") = 2

\* the fixed base instruction of a content type
FixedBase(ptype) == prompts(<<>>)[ptype]

\* the instruction of (content_type, custom_instruction, length_hint)
Instruction(ptype, custom, length) ==
    LET base == IF ptype = "professor" /\ custom # <<>> THEN custom
                ELSE FixedBase(ptype)
    IN IF ptype = "professor" /\ length # <<>>
       THEN <<"Answer length: ">> \o length \o <<". ">> \o base
       ELSE base

(* C18: the instruction sent with every inference call, in single-unit and  *)
(* in multi-unit mode, is the fixed base instruction of the content type;   *)
(* for professor a non-empty custom instruction replaces the base and a     *)
(* non-empty length hint prepends 'Answer length: {hint}. '; for every      *)
(* other content type the length hint has no effect.                        *)
C18_InstructionRule ==
    prompt_type \in PromptTypes =>
       \A k \in 1..Len(calls) :
          calls[k].system = Instruction(prompt_type, custom_prompt, answer_length)

\* a multi-unit professor request with a custom instruction and a length
\* hint has sent its second call
C18_Witness ==
    /\ ChunkMode
    /\ prompt_type = "professor"
    /\ custom_prompt # <<>> /\ answer_length # <<>>
    /\ Len(calls) >= 2
    /\ calls[2].system = <<"Answer length: ">> \o answer_length \o <<". ">> \o custom_prompt

(* C19: every inference call, in single-unit and in multi-unit mode, uses   *)
(* temperature 0.4 when the content type is summary or brief and            *)
(* temperature 0.7 when it is qna, questions or professor (temperatures in  *)
(* tenths).                                                                 *)
C19_TemperaturePerType ==
    \A k \in 1..Len(calls) :
       /\ prompt_type \in {"summary", "brief"} => calls[k].temperature = 4
       /\ prompt_type \in {"qna", "questions", "professor"} => calls[k].temperature = 7

\* a multi-unit brief request has sent its second call at 0.4
C19_Witness ==
    /\ ChunkMode
    /\ prompt_type = "brief"
    /\ Len(calls) >= 2
    /\ calls[2].temperature = 4

\* the text extracted from the PDF is empty or white space only
Blank(text) == strip(text) = <<>>

NoTextWarning == Dialog("warning", "Error", "No text found in PDF")

(* C20: a request whose extracted text is empty or whitespace-only is       *)
(* rejected before dispatch: process_pdf and generate_content start no      *)
(* worker, issue no inference call and leave their trigger button enabled.  *)
C20_EmptyTextRejected ==
    /\ Blank(pdf_text) =>
          /\ process_button
          /\ ~connected /\ pending = <<>>
          /\ final_summary = <<>> /\ notes = <<>>
    /\ Blank(content_pdf_text) =>
          /\ generate_content_button
          /\ ~content_connected /\ content_pending = <<>>
          /\ generated_content = <<>>
    /\ (Blank(pdf_text) /\ Blank(content_pdf_text)) =>
          /\ wpc = "none"
          /\ calls = <<>> /\ events = <<>>

\* process_pdf on a PDF of white space only has just shown its warning and
\* returned, the other tab holding a PDF with text
C20_Witness ==
    /\ pdf_text # <<>> /\ Blank(pdf_text)
    /\ ~Blank(content_pdf_text)
    /\ msgbox # <<>> /\ msgbox[Len(msgbox)] = NoTextWarning
    /\ process_button
    /\ wpc = "none"

\* the units of the calls, in the order the calls were issued
DispatchOrder == [k \in 1..Len(calls) |-> calls[k].unit]

StatusOf(i) == {p \in 1..Len(events) : IsChunkStatus(events[p], i)}

\* the positions of the progress or error event of unit i
EndEventOf(i) ==
    {q \in 1..Len(events) :
        \/ events[q] = ProgressEvent(progress_value(i, Len(chunks)))
        \/ IsChunkError(events[q], i)}

\* every unit that issued its call has exactly one status, 'i/N...', and
\* the status comes before the unit's progress or error event
StatusBeforeUnitEvents ==
    \A i \in Units :
       /\ CallsOf(i) # {} =>
             /\ Cardinality(StatusOf(i)) = 1
             /\ \A p \in StatusOf(i) :
                   events[p].msg = <<"Processing chunk ", ToString(i), "/",
                                     ToString(Len(chunks)), "...">>
       /\ CallsOf(i) = {} => StatusOf(i) = {}
       /\ \A q \in EndEventOf(i) : \E p \in StatusOf(i) : p < q

\* a textual status that belongs to no unit and follows the events of
\* every unit
CompletionStatusEmitted ==
    \E p \in 1..Len(events) :
       /\ events[p].sig = "output"
       /\ \A i \in Units : ~IsChunkStatus(events[p], i) /\ ~IsChunkError(events[p], i)
       /\ \A i \in Units : \A q \in StatusOf(i) \cup EndEventOf(i) : q < p

(* C22: in multi-unit mode the status 'Processing chunk i/N...' is emitted  *)
(* for each unit before that unit's inference call and before its progress  *)
(* or error event, and one textual status is emitted when the whole         *)
(* request completes.                                                       *)
C22_StatusPerUnitAndCompletion ==
    ChunkMode =>
       /\ StatusBeforeUnitEvents
       /\ (wpc = "finished" /\ chunks # <<>>) => CompletionStatusEmitted

\* the sentences of the text given to split_text_into_chunks
InputSentences == split(seg.text, <<".", " ">>)

RECURSIVE PeriodsIn(_)
\* the number of periods in the units: the sentences they complete
PeriodsIn(units) ==
    IF units = <<>> THEN 0
    ELSE Cardinality({k \in 1..Len(Head(units)) : Head(units)[k] = "."})
         + PeriodsIn(Tail(units))

\* unit j ends a sentence and another sentence follows it
BetweenSentences(j) ==
    /\ j < Len(seg.chunks)
    /\ seg.chunks[j][Len(seg.chunks[j])] = "."

\* the sentence that starts unit j + 1
SentenceAfter(j) == InputSentences[PeriodsIn(SubSeq(seg.chunks, 1, j)) + 1]

(* C23: split_text_into_chunks packs greedily: a new unit is started        *)
(* between two consecutive sentences only when the running buffer with the  *)
(* next sentence and its delimiter would exceed max_chunk_size; the         *)
(* sentence after a force-split sentence is packed with that sentence's     *)
(* last fragment whenever the two fit.                                      *)
C23_GreedyPacking ==
    Returned =>
       \A j \in ReturnedUnits :
          BetweenSentences(j) =>
             Len(seg.chunks[j] \o <<" ">> \o SentenceAfter(j) \o <<".", " ">>)
                > seg.max_chunk_size

\* the summarization workers whose run() has not ended
SummarizersInFlight ==
    Len(orphans) + (IF connected /\ wpc \in {"created", "full"} THEN 1 ELSE 0)

(* C24: at most one summarization worker is in flight at any time: between  *)
(* process_pdf starting a worker and summarization_finished running, no     *)
(* sequence of select_file, clicks on the process button and                *)
(* process_selected_pdf starts a second worker or replaces self.worker.     *)
C24_OneSummarizerInFlight ==
    /\ SummarizersInFlight <= 1
    /\ Alive

\* the text is the summary of the PDF doc: the response to its text
SummaryOf(text, doc) == text = Response(DocText(doc))

(* C25: the note saved when a summarization finishes records the filename   *)
(* of the PDF whose text was summarized, for every interleaving of          *)
(* select_file and process_selected_pdf with the running worker.            *)
C25_NoteNamesSummarizedPdf ==
    \A k \in 1..Len(notes) : \A doc \in Docs :
       SummaryOf(notes[k].content, doc) => notes[k].filename = doc

(* C26: whenever the summary export button is enabled, final_summary,       *)
(* current_pdf_filename and current_pdf_topic all derive from the same PDF  *)
(* (a summary that is an error text names no PDF).                          *)
C26_ExportNamesOnePdf ==
    export_button =>
       \E doc \in Docs :
          /\ SummaryOf(final_summary, doc) \/ IsErrorMarker(final_summary)
          /\ current_pdf_filename = doc
          /\ current_pdf_topic = extract_topic(DocText(doc))

\* the instruction __init__ fixes for a content type, summary's for a type
\* it does not know
FixedInstruction(ptype) ==
    IF ptype \in PromptTypes THEN FixedBase(ptype) ELSE FixedBase("summary")

\* the worker was started by generate_content
StartedByGenerateContent == content_connected

SummaryRequested == ~process_button
ContentRequested == ~generate_content_button
AnswerRequested == ~ask_question_button

\* the state the matching finished handler leaves: the worker's result
\* delivered and stored, the trigger enabled
SummaryHandled ==
    /\ process_button /\ export_button
    /\ connected /\ wpc = "finished" /\ pending = <<>>
    /\ final_summary = result
ContentHandled ==
    /\ generate_content_button /\ export_content_button
    /\ content_connected /\ wpc = "finished" /\ content_pending = <<>>
    /\ generated_content = result
AnswerHandled ==
    /\ ask_question_button
    /\ qa_connected /\ wpc = "finished" /\ qa_pending = <<>>
    /\ answer_area # <<>>
    /\ SubSeq(answer_area, Len(answer_area) - 1, Len(answer_area))
          = <<<<"A: ">> \o result, <<"---">>>>

====
